---- MODULE Spec2Model ----
(***************************************************************************)
(* Model of the library lending ledger: LibraryDatabase.borrowBook and     *)
(* LibraryDatabase.returnBook (src/src/db/library.ts) running against the  *)
(* books / borrowings tables, CHECK constraints and availability triggers  *)
(* of the library schema (src/src/db/migrations/001-create-tasks-table.sql)*)
(*                                                                         *)
(* Every process owns one connection (the libraryDb singleton).  Calls of  *)
(* one process share its JavaScript thread: the transaction attempt `fn`   *)
(* passed to retry() is synchronous, so a call yields only at the backoff  *)
(* wait.  Calls of different processes interleave statement by statement   *)
(* and are serialised by SQLite's database-wide write lock, which          *)
(* BEGIN IMMEDIATE takes or fails to take ("database is locked").          *)
(***************************************************************************)
EXTENDS Integers, Sequences, FiniteSets, TLC

VARIABLES
    available_copies,   \* books.available_copies, by book id (working state)
    total_copies,       \* books.total_copies, by book id
    borrowings,         \* the borrowings table; the row id is the index
    writer,             \* the call whose transaction holds the write lock, or NoCall
    journal,            \* what ROLLBACK restores (taken at BEGIN IMMEDIATE)
    call,               \* per call: its arguments, retry()'s locals, its position
    busy_commits,       \* how many COMMITs the store has refused so far
    launch_available    \* available_copies when the calls were launched

vars == <<available_copies, total_copies, borrowings, writer, journal, call, busy_commits,
          launch_available>>

db == <<available_copies, total_copies, borrowings>>

----------------------------------------------------------------------------
(* Bounds of the model *)

MaxCalls == 2          \* calls made in one run of Spec
MaxCopies == 2         \* largest total_copies of a book
NConns == 2            \* processes holding a connection to the database file
MaxBusyCommits == 1    \* COMMITs that meet a reader's lock in one run

Calls == 1..(MaxCalls + 1)
Conns == 1..NConns
NoCall == 0
NoConn == 0

Books == {1, 2}                 \* ids of the rows of books
LibraryUsers == {1}             \* ids of the rows of library_users
Today == 10                     \* DATE('now'), as a day number

(* A JavaScript number, as a fraction; den = 0 is NaN *)
Num(n) == [num |-> n, den |-> 1]
Frac(n, d) == [num |-> n, den |-> d]
NaN == [num |-> 0, den |-> 0]

(* Number.isInteger(x), and the integer that x then is *)
NumberIsInteger(x) == IF x.den = 0 THEN FALSE ELSE x.num % x.den = 0
IntegerOf(x) == IF NumberIsInteger(x) THEN x.num \div x.den ELSE 0

(* Inputs the callers pass.  dueDateISO is a date string: whether it matches
   /^[0-9]{4}-[0-9]{2}-[0-9]{2}/ and the day it names *)
DueIn(days) == [wellFormed |-> TRUE, day |-> Today + days]
Malformed == [wellFormed |-> FALSE, day |-> 0]
BorrowInputs ==
    { [userId |-> 1, bookId |-> 1, due |-> DueIn(7)],
      [userId |-> 1, bookId |-> 2, due |-> DueIn(7)],
      [userId |-> 1, bookId |-> 3, due |-> DueIn(7)],      \* 3 is no book
      [userId |-> 1, bookId |-> 1, due |-> DueIn(-1)] }    \* due before today
(* the first row, the newest row, and an id no row has yet *)
ReturnInputs(rows) ==
    { [borrowingId |-> 1, fineAmountCents |-> 0],
      [borrowingId |-> Len(rows) + 1, fineAmountCents |-> 0] }
    \cup (IF Len(rows) > 0 THEN { [borrowingId |-> Len(rows), fineAmountCents |-> 350] } ELSE {})

----------------------------------------------------------------------------
(* DEFAULT_RETRY *)
maxAttempts == 3
initialDelayMs == 50
backoffFactor == 2

(* Error messages *)
ErrInvalidUserId == "Invalid userId"
ErrInvalidBookId == "Invalid bookId"
ErrInvalidDueDate == "Invalid dueDate format (expected YYYY-MM-DD)"
ErrInvalidBorrowingId == "Invalid borrowingId"
ErrInvalidFine == "Invalid fine amount"
ErrBookNotFound == "Book not found"
ErrNoCopies == "No available copies"
ErrReserve == "Failed to reserve copy"
ErrNoBorrowing == "Active borrowing not found"
ErrSetReturn == "Failed to set return"
ErrCheck == "CHECK constraint failed"
ErrForeignKey == "FOREIGN KEY constraint failed"
ErrLocked == "database is locked"
NoError == "none"
Ok == "ok"
Pending == "pending"

(* the test loosened to /failed|database is locked|busy/i *)
isBusyFailed(message) ==
    message \in {ErrLocked, ErrReserve, ErrSetReturn}

(* the test that matches nothing *)
isBusyNever(message) ==
    FALSE

(* every error taken for a lock error *)
isBusyAlways(message) ==
    TRUE

(* retry(): /database is locked|busy/i.test(err.message), over the messages
   that reach it *)
isBusy(message) == message \in {ErrLocked}

Null == -1                      \* SQL NULL in a DATE column
NoJournal == <<>>
NoArgs == [op |-> "none", target |-> 0]

Min(a, b) == IF a <= b THEN a ELSE b

(* fineAmountCents stored as it is passed, without the division *)
CentsAsAmount(cents) == [units |-> cents, hundredths |-> 0]

(* fineAmountCents / 100 as the NUMERIC that is stored *)
CentsToAmount(cents) == [units |-> cents \div 100, hundredths |-> cents % 100]

(* positions inside the synchronous attempt fn *)
RunningPcs == {"getBook", "decrementBook", "insertBorrowing",
               "getBr", "setReturned", "incrementBook", "commit", "rollback"}

(* the JavaScript thread of connection c is free: none of its calls is in
   synchronous code *)
ThreadFree(c) == \A q \in Calls : call[q].conn = c => call[q].pc \notin RunningPcs

IdleCall == [pc |-> "idle", conn |-> NoConn, args |-> NoArgs, attempt |-> 0, delay |-> 0,
             err |-> NoError, br |-> 0, row |-> 0, outcome |-> Pending]

(* the call has returned (outcome Ok) or thrown the message `outcome`: its
   frame is gone; the operation, the book or borrowing it was about and its
   outcome stay on record *)
Finished(f, outcome) ==
    [IdleCall EXCEPT !.pc = "done", !.outcome = outcome,
                     !.args = [op |-> f.args.op, target |-> f.args.target]]

----------------------------------------------------------------------------
(* The committed state: what every other connection reads, and what a
   ROLLBACK of the open transaction goes back to *)
CommittedAvailable == IF writer = NoCall THEN available_copies ELSE journal[1]
CommittedRows == IF writer = NoCall THEN borrowings ELSE journal[2]

(* Rows of borrowings that are active, per book *)
ActiveRows(rows, b) == {i \in 1..Len(rows) : rows[i].book_id = b /\ rows[i].returned_date = Null}

NewBorrowing(userId, bookId, due) ==
    [user_id |-> userId, book_id |-> bookId, borrowed_date |-> Today,
     due_date |-> due, returned_date |-> Null, fine_amount |-> CentsToAmount(0)]

(* n active rows for book b, as they are before the calls are launched *)
RECURSIVE InitialRows(_, _)
InitialRows(b, n) ==
    IF n = 0 THEN <<>>
    ELSE Append(InitialRows(b, n - 1),
                [user_id |-> 1, book_id |-> b, borrowed_date |-> Today - 1,
                 due_date |-> Today + 6, returned_date |-> Null,
                 fine_amount |-> CentsToAmount(0)])

(* the database before the calls are launched: every copy that is not
   available is out on an active borrowing, and no transaction is open *)
InitDb ==
    /\ total_copies \in [Books -> 1..MaxCopies]
    /\ available_copies \in [Books -> 0..MaxCopies]
    /\ \A b \in Books : available_copies[b] <= total_copies[b]
    /\ borrowings = InitialRows(1, total_copies[1] - available_copies[1])
                    \o InitialRows(2, total_copies[2] - available_copies[2])
    /\ launch_available = available_copies
    /\ writer = NoCall
    /\ journal = NoJournal
    /\ busy_commits = 0

(* book 1 has all its copies, all but one, or none; book 2 is a single copy
   on the shelf *)
Init ==
    /\ InitDb
    /\ available_copies[1] \in {0, total_copies[1] - 1, total_copies[1]}
    /\ total_copies[2] = 1
    /\ available_copies[2] = 1
    /\ call = [p \in Calls |-> IdleCall]

(* the catch of retry() with `attempt > retry.maxAttempts` *)
RetryCatchLate(f, message) ==
    IF f.attempt + 1 > maxAttempts \/ ~isBusy(message)
    THEN Finished(f, message)
    ELSE [f EXCEPT !.attempt = @ + 1, !.pc = "wait", !.err = NoError]

----------------------------------------------------------------------------
(* the catch of retry() without the test of isBusy *)
RetryCatchAll(f, message) ==
    IF f.attempt + 1 >= maxAttempts
    THEN Finished(f, message)
    ELSE [f EXCEPT !.attempt = @ + 1, !.pc = "wait", !.err = NoError]

(* the catch block without `attempt >= retry.maxAttempts`: a lock error is
   always waited on (the count and the delay are kept from growing further) *)
RetryCatchForever(f, message) ==
    IF ~isBusy(message)
    THEN Finished(f, message)
    ELSE [f EXCEPT !.attempt = Min(@ + 1, maxAttempts - 1),
                   !.delay = Min(@, initialDelayMs * backoffFactor),
                   !.pc = "wait", !.err = NoError]

(* retry(): the catch block, reached with the message fn threw *)
RetryCatch(f, message) ==
    IF f.attempt + 1 >= maxAttempts \/ ~isBusy(message)
    THEN Finished(f, message)
    ELSE [f EXCEPT !.attempt = @ + 1, !.pc = "wait", !.err = NoError]

(* the try block of fn throws: its catch block is entered with the message *)
Throw(f, message) == [f EXCEPT !.pc = "rollback", !.err = message]

(* fn starts: this.db.run('BEGIN IMMEDIATE'), outside the try block.  It takes
   the write lock, or fails when a transaction of another connection holds it *)
BeginImmediate(p, f) ==
    IF writer # NoCall
    THEN /\ call' = [call EXCEPT ![p] = RetryCatch(f, ErrLocked)]
         /\ UNCHANGED <<writer, journal>>
    ELSE /\ writer' = p
         /\ journal' = <<available_copies, borrowings>>
         /\ call' = [call EXCEPT ![p] =
                [f EXCEPT !.pc = IF f.args.op = "borrow" THEN "getBook" ELSE "getBr"]]

(* a call is made on connection c; the calls are numbered in the order they
   are made and the connections in the order they are first used *)
CanCall(p, c) ==
    /\ call[p].pc = "idle"
    /\ c <= p
    /\ IF p = 1 THEN TRUE ELSE call[p - 1].pc # "idle"
    /\ ThreadFree(c)

(* the input checks of both operations, then retry(fn) runs fn at once *)
StartCall(p, c, a, message) ==
    LET f == [IdleCall EXCEPT !.conn = c, !.args = a, !.delay = initialDelayMs]
    IN  /\ IF message # NoError
           THEN /\ call' = [call EXCEPT ![p] = Finished(f, message)]
                /\ UNCHANGED <<writer, journal>>
           ELSE BeginImmediate(p, f)
        /\ UNCHANGED <<db, busy_commits, launch_available>>

(* borrowBook without its check of bookId *)
borrowBookAnyBookId(p, c, userId, bookId, dueDateISO) ==
    /\ CanCall(p, c)
    /\ StartCall(p, c,
                 [op |-> "borrow", target |-> IntegerOf(bookId),
                  userId |-> IntegerOf(userId), due |-> dueDateISO],
                 IF ~NumberIsInteger(userId) \/ IntegerOf(userId) <= 0 THEN ErrInvalidUserId
                 ELSE IF ~dueDateISO.wellFormed THEN ErrInvalidDueDate
                 ELSE NoError)

borrowBook(p, c, userId, bookId, dueDateISO) ==
    /\ CanCall(p, c)
    /\ StartCall(p, c,
                 [op |-> "borrow", target |-> IntegerOf(bookId),
                  userId |-> IntegerOf(userId), due |-> dueDateISO],
                 IF ~NumberIsInteger(userId) \/ IntegerOf(userId) <= 0 THEN ErrInvalidUserId
                 ELSE IF ~NumberIsInteger(bookId) \/ IntegerOf(bookId) <= 0 THEN ErrInvalidBookId
                 ELSE IF ~dueDateISO.wellFormed THEN ErrInvalidDueDate
                 ELSE NoError)

returnBook(p, c, borrowingId, fineAmountCents) ==
    /\ CanCall(p, c)
    /\ StartCall(p, c,
                 [op |-> "return", target |-> IntegerOf(borrowingId),
                  fine |-> IntegerOf(fineAmountCents)],
                 IF ~NumberIsInteger(borrowingId) \/ IntegerOf(borrowingId) <= 0
                 THEN ErrInvalidBorrowingId
                 ELSE IF ~NumberIsInteger(fineAmountCents) \/ IntegerOf(fineAmountCents) < 0
                 THEN ErrInvalidFine
                 ELSE NoError)

(* getBookForUpdate and the two checks on its row *)
getBookForUpdate(p) ==
    /\ call[p].pc = "getBook"
    /\ LET f == call[p]
           bookId == f.args.target
       IN call' = [call EXCEPT ![p] =
                IF bookId \notin DOMAIN available_copies THEN Throw(f, ErrBookNotFound)
                ELSE IF available_copies[bookId] <= 0 THEN Throw(f, ErrNoCopies)
                ELSE [f EXCEPT !.pc = "decrementBook"]]
    /\ UNCHANGED <<db, writer, journal, busy_commits, launch_available>>

(* the decrement that leaves the counter as it is *)
DecrementSkipped(avail, b) ==
    avail

(* the decrement without its guard `AND available_copies > 0` *)
DecrementUnguarded(avail, b) ==
    IF b \in DOMAIN avail THEN [avail EXCEPT ![b] = @ - 1] ELSE avail

(* UPDATE books SET available_copies = available_copies - 1
   WHERE id = ? AND available_copies > 0 *)
DecrementAvailable(avail, b) ==
    IF b \in DOMAIN avail /\ avail[b] > 0 THEN [avail EXCEPT ![b] = @ - 1] ELSE avail

(* the increment without its MIN(total_copies, ...) *)
IncrementUnclamped(avail, b) ==
    IF b \in DOMAIN avail THEN [avail EXCEPT ![b] = @ + 1] ELSE avail

(* UPDATE books SET available_copies = MIN(total_copies, available_copies + 1)
   WHERE id = ? *)
IncrementAvailable(avail, b) ==
    IF b \in DOMAIN avail THEN [avail EXCEPT ![b] = Min(total_copies[b], @ + 1)] ELSE avail

(* dec.run(bookId) and the check of res.changes *)
decrementBook(p) ==
    /\ call[p].pc = "decrementBook"
    /\ LET f == call[p]
           bookId == f.args.target
           changes == IF bookId \in DOMAIN available_copies /\ available_copies[bookId] > 0 THEN 1 ELSE 0
       IN IF changes # 1
          THEN /\ call' = [call EXCEPT ![p] = Throw(f, ErrReserve)]
               /\ UNCHANGED available_copies
          ELSE /\ available_copies' = DecrementAvailable(available_copies, bookId)
               /\ call' = [call EXCEPT ![p] = [f EXCEPT !.pc = "insertBorrowing"]]
    /\ UNCHANGED <<total_copies, borrowings, writer, journal, busy_commits, launch_available>>

(* the trigger's UPDATE without `WHERE id = NEW.book_id` *)
trg_decrement_every_book(avail, new) ==
    IF new.returned_date = Null
    THEN [b \in DOMAIN avail |-> IF avail[b] > 0 THEN avail[b] - 1 ELSE avail[b]]
    ELSE avail

(* trg_borrowings_decrement_available: AFTER INSERT ON borrowings
   WHEN NEW.returned_date IS NULL *)
trg_borrowings_decrement_available(avail, new) ==
    IF new.returned_date = Null THEN DecrementAvailable(avail, new.book_id) ELSE avail

(* trg_borrowings_increment_available: AFTER UPDATE OF returned_date ON borrowings
   WHEN NEW.returned_date IS NOT NULL AND OLD.returned_date IS NULL *)
trg_borrowings_increment_available(avail, old, new) ==
    IF new.returned_date # Null /\ old.returned_date = Null
    THEN IncrementAvailable(avail, new.book_id) ELSE avail

(* the INSERT on a table without CHECK (due_date >= borrowed_date) *)
insertBorrowingNoCheck(p) ==
    /\ call[p].pc = "insertBorrowing"
    /\ LET f == call[p]
           new == NewBorrowing(f.args.userId, f.args.target, f.args.due.day)
       IN IF new.user_id \notin LibraryUsers \/ new.book_id \notin DOMAIN total_copies
          THEN /\ call' = [call EXCEPT ![p] = Throw(f, ErrForeignKey)]
               /\ UNCHANGED <<available_copies, borrowings>>
          ELSE /\ borrowings' = Append(borrowings, new)
               /\ available_copies' = trg_borrowings_decrement_available(available_copies, new)
               /\ call' = [call EXCEPT ![p] =
                      [f EXCEPT !.pc = "commit", !.row = Len(borrowings) + 1]]
    /\ UNCHANGED <<total_copies, writer, journal, busy_commits, launch_available>>

(* ins.get(userId, bookId, dueDateISO): INSERT INTO borrowings ... RETURNING id,
   under the table's CHECK and FOREIGN KEY constraints *)
insertBorrowing(p) ==
    /\ call[p].pc = "insertBorrowing"
    /\ LET f == call[p]
           new == NewBorrowing(f.args.userId, f.args.target, f.args.due.day)
       IN IF ~(new.due_date >= new.borrowed_date)
          THEN /\ call' = [call EXCEPT ![p] = Throw(f, ErrCheck)]
               /\ UNCHANGED <<available_copies, borrowings>>
          ELSE IF new.user_id \notin LibraryUsers \/ new.book_id \notin DOMAIN total_copies
          THEN /\ call' = [call EXCEPT ![p] = Throw(f, ErrForeignKey)]
               /\ UNCHANGED <<available_copies, borrowings>>
          ELSE /\ borrowings' = Append(borrowings, new)
               /\ available_copies' = trg_borrowings_decrement_available(available_copies, new)
               /\ call' = [call EXCEPT ![p] =
                      [f EXCEPT !.pc = "commit", !.row = Len(borrowings) + 1]]
    /\ UNCHANGED <<total_copies, writer, journal, busy_commits, launch_available>>

(* getBr without `AND returned_date IS NULL` *)
getBrAnyRow(p) ==
    /\ call[p].pc = "getBr"
    /\ LET f == call[p]
           id == f.args.target
       IN call' = [call EXCEPT ![p] =
                IF id \in 1..Len(borrowings)
                THEN [f EXCEPT !.pc = "setReturned", !.br = borrowings[id].book_id]
                ELSE Throw(f, ErrNoBorrowing)]
    /\ UNCHANGED <<db, writer, journal, busy_commits, launch_available>>

(* SELECT id, book_id FROM borrowings WHERE id = ? AND returned_date IS NULL *)
getBr(p) ==
    /\ call[p].pc = "getBr"
    /\ LET f == call[p]
           id == f.args.target
       IN call' = [call EXCEPT ![p] =
                IF id \in 1..Len(borrowings) /\ borrowings[id].returned_date = Null
                THEN [f EXCEPT !.pc = "setReturned", !.br = borrowings[id].book_id]
                ELSE Throw(f, ErrNoBorrowing)]
    /\ UNCHANGED <<db, writer, journal, busy_commits, launch_available>>

(* setRet.run(fineAmountCents / 100, borrowingId) and the check of res.changes:
   UPDATE borrowings SET returned_date = DATE('now'), fine_amount = ?
   WHERE id = ? AND returned_date IS NULL *)
setReturned(p) ==
    /\ call[p].pc = "setReturned"
    /\ LET f == call[p]
           id == f.args.target
           changes == IF id \in 1..Len(borrowings) /\ borrowings[id].returned_date = Null
                      THEN 1 ELSE 0
       IN IF changes # 1
          THEN /\ call' = [call EXCEPT ![p] = Throw(f, ErrSetReturn)]
               /\ UNCHANGED <<available_copies, borrowings>>
          ELSE LET old == borrowings[id]
                   new == [old EXCEPT !.returned_date = Today,
                                      !.fine_amount = CentsToAmount(f.args.fine)]
               IN /\ borrowings' = [borrowings EXCEPT ![id] = new]
                  /\ available_copies' =
                         trg_borrowings_increment_available(available_copies, old, new)
                  /\ call' = [call EXCEPT ![p] = [f EXCEPT !.pc = "incrementBook"]]
    /\ UNCHANGED <<total_copies, writer, journal, busy_commits, launch_available>>

(* the increment run with the id of the borrowing: inc.run(borrowingId) *)
incrementBookByBorrowingId(p) ==
    /\ call[p].pc = "incrementBook"
    /\ available_copies' = IncrementAvailable(available_copies, call[p].args.target)
    /\ call' = [call EXCEPT ![p] = [@ EXCEPT !.pc = "commit"]]
    /\ UNCHANGED <<total_copies, borrowings, writer, journal, busy_commits, launch_available>>

(* inc.run(br.book_id); its result is not looked at *)
incrementBook(p) ==
    /\ call[p].pc = "incrementBook"
    /\ available_copies' = IncrementAvailable(available_copies, call[p].br)
    /\ call' = [call EXCEPT ![p] = [@ EXCEPT !.pc = "commit"]]
    /\ UNCHANGED <<total_copies, borrowings, writer, journal, busy_commits, launch_available>>

(* this.db.run('COMMIT') succeeds: the lock is released, fn and the call return *)
Commit(p) ==
    /\ call[p].pc = "commit"
    /\ writer' = NoCall
    /\ journal' = NoJournal
    /\ call' = [call EXCEPT ![p] = Finished(@, Ok)]
    /\ UNCHANGED <<db, busy_commits, launch_available>>

(* a COMMIT that fails while fn returns as if it had succeeded *)
CommitBusySwallowed(p) ==
    /\ call[p].pc = "commit"
    /\ busy_commits < MaxBusyCommits
    /\ busy_commits' = busy_commits + 1
    /\ call' = [call EXCEPT ![p] = Finished(@, Ok)]
    /\ UNCHANGED <<db, writer, journal, launch_available>>

(* this.db.run('COMMIT') fails with SQLITE_BUSY (a reader on another
   connection holds its lock): the transaction stays open, catch is entered *)
CommitBusy(p) ==
    /\ call[p].pc = "commit"
    /\ busy_commits < MaxBusyCommits
    /\ busy_commits' = busy_commits + 1
    /\ call' = [call EXCEPT ![p] = Throw(@, ErrLocked)]
    /\ UNCHANGED <<db, writer, journal, launch_available>>

(* the catch of fn without its ROLLBACK: the error goes on while the
   transaction stays open *)
RollbackSkipped(p) ==
    /\ call[p].pc = "rollback"
    /\ writer = p
    /\ call' = [call EXCEPT ![p] = RetryCatch(@, @.err)]
    /\ UNCHANGED <<db, writer, journal, busy_commits, launch_available>>

(* the catch of fn without its ROLLBACK taking the writes back *)
RollbackKeepsWrites(p) ==
    /\ call[p].pc = "rollback"
    /\ writer = p
    /\ writer' = NoCall
    /\ journal' = NoJournal
    /\ call' = [call EXCEPT ![p] = RetryCatch(@, @.err)]
    /\ UNCHANGED <<db, busy_commits, launch_available>>

(* catch (err) { try { this.db.run('ROLLBACK') } catch {}; throw err }, and
   the catch block of retry() that the rethrown error reaches *)
Rollback(p) ==
    /\ call[p].pc = "rollback"
    /\ writer = p
    /\ available_copies' = journal[1]
    /\ borrowings' = journal[2]
    /\ writer' = NoCall
    /\ journal' = NoJournal
    /\ call' = [call EXCEPT ![p] = RetryCatch(@, @.err)]
    /\ UNCHANGED <<total_copies, busy_commits, launch_available>>

(* the timer callback running in the middle of another call's attempt on
   the same connection *)
BackoffIntoAttempt(p) ==
    /\ call[p].pc = "wait"
    /\ BeginImmediate(p, [call[p] EXCEPT !.delay = @ * backoffFactor])
    /\ UNCHANGED <<db, busy_commits, launch_available>>

(* the timer of `await new Promise((r) => setTimeout(r, delay))` fires:
   delay *= retry.backoffFactor, and the loop runs fn again *)
Backoff(p) ==
    /\ call[p].pc = "wait"
    /\ ThreadFree(call[p].conn)
    /\ BeginImmediate(p, [call[p] EXCEPT !.delay = @ * backoffFactor])
    /\ UNCHANGED <<db, busy_commits, launch_available>>

Next ==
    \/ \E p \in 1..MaxCalls, c \in Conns, a \in BorrowInputs :
          borrowBook(p, c, Num(a.userId), Num(a.bookId), a.due)
    \/ \E p \in 1..MaxCalls, c \in Conns, a \in ReturnInputs(CommittedRows) :
          returnBook(p, c, Num(a.borrowingId), Num(a.fineAmountCents))
    \/ \E p \in Calls : getBookForUpdate(p)
    \/ \E p \in Calls : decrementBook(p)
    \/ \E p \in Calls : insertBorrowing(p)
    \/ \E p \in Calls : getBr(p)
    \/ \E p \in Calls : setReturned(p)
    \/ \E p \in Calls : incrementBook(p)
    \/ \E p \in Calls : Commit(p)
    \/ \E p \in Calls : CommitBusy(p)
    \/ \E p \in Calls : Rollback(p)
    \/ \E p \in Calls : Backoff(p)

Spec == Init /\ [][Next]_vars

----------------------------------------------------------------------------
(* C1: in every committed state the number of active borrowings of each book
   equals total_copies - available_copies *)
C1_ActiveRowsMatchCounter ==
    \A b \in Books :
        Cardinality(ActiveRows(CommittedRows, b)) = total_copies[b] - CommittedAvailable[b]

(* C2: 0 <= available_copies <= total_copies for every book in every state,
   inside an open transaction as well as in the committed state *)
C2_AvailableWithinBounds ==
    \A b \in Books :
        /\ 0 <= available_copies[b] /\ available_copies[b] <= total_copies[b]
        /\ 0 <= CommittedAvailable[b] /\ CommittedAvailable[b] <= total_copies[b]

(* C2 witness: inside an open transaction the counter of a book has been
   taken down to 0, and the transaction is still to insert its row *)
C2_Witness ==
    \E p \in Calls :
        /\ writer = p
        /\ call[p].pc = "insertBorrowing"
        /\ available_copies[call[p].args.target] = 0
        /\ journal[1][call[p].args.target] = 1

----------------------------------------------------------------------------
(* What a step of a call is *)
Finishes(p) == call[p].pc # "done" /\ call'[p].pc = "done"
Commits(p) == call[p].pc = "commit" /\ Finishes(p)
RollsBack(p) == call[p].pc = "rollback" /\ call'[p] # call[p]

DoneWith(op, outcome) ==
    {p \in Calls : call[p].pc = "done" /\ call[p].args.op = op /\ call[p].outcome = outcome}
AllDone(ps) == \A p \in ps : call[p].pc = "done"

(* calls that borrowed a copy of book b, calls that returned one *)
Borrowed(b) == {p \in DoneWith("borrow", Ok) : call[p].args.target = b}
Returned(b) == {p \in DoneWith("return", Ok) : borrowings[call[p].args.target].book_id = b}

----------------------------------------------------------------------------
(* N borrowBook calls for one book are launched from one process, and
   nothing else runs *)
InitAcquire ==
    /\ InitDb
    /\ call = [p \in Calls |-> IdleCall]

NextAcquire ==
    \/ \E p \in Calls, b \in Books :
          /\ \A q \in Calls : call[q].pc # "idle" => call[q].args.target = b
          /\ borrowBook(p, 1, Num(1), Num(b), DueIn(7))
    \/ \E p \in Calls : getBookForUpdate(p)
    \/ \E p \in Calls : decrementBook(p)
    \/ \E p \in Calls : insertBorrowing(p)
    \/ \E p \in Calls : Commit(p)
    \/ \E p \in Calls : Rollback(p)

SpecAcquire == InitAcquire /\ [][NextAcquire]_vars

(* C3: when N concurrent borrowBook calls for a book with k < N available
   copies have all ended, exactly k have succeeded, exactly N - k have failed
   with 'No available copies', and available_copies is 0 *)
C3_ExactlyKSucceed ==
    AllDone(Calls) =>
        \A b \in Books :
            (\A p \in Calls : call[p].args.target = b) =>
                /\ Cardinality(DoneWith("borrow", Ok)) = launch_available[b]
                /\ Cardinality(DoneWith("borrow", ErrNoCopies))
                       = Cardinality(Calls) - launch_available[b]
                /\ available_copies[b] = 0

----------------------------------------------------------------------------
(* C4: the calls that borrowed a copy of a book are never more than the
   copies that were available at launch plus the copies returned since; with
   one copy available and none returned, at most one borrowBook succeeds *)
C4_NeverOversubscribed ==
    \A b \in Books :
        Cardinality(Borrowed(b)) <= launch_available[b] + Cardinality(Returned(b))

(* C4 witness: two borrowBook calls went for the one available copy of a
   book; one has it, the other was told there is none *)
C4_Witness ==
    \E p, q \in Calls :
        /\ p \in Borrowed(1) /\ q \in DoneWith("borrow", ErrNoCopies)
        /\ call[q].args.target = 1
        /\ launch_available[1] = 1

----------------------------------------------------------------------------
(* returnBook is called twice for one active borrowing, from any of the
   processes, while readers may hold up a COMMIT *)
InitRelease ==
    /\ InitDb
    /\ Len(borrowings) >= 1
    /\ call = [p \in Calls |-> IdleCall]

NextRelease ==
    \/ \E p \in 1..2, c \in Conns, id \in 1..Len(CommittedRows), f \in {0, 350} :
          /\ p = 2 => id = call[1].args.target
          /\ returnBook(p, c, Num(id), Num(f))
    \/ \E p \in Calls : getBr(p)
    \/ \E p \in Calls : setReturned(p)
    \/ \E p \in Calls : incrementBook(p)
    \/ \E p \in Calls : Commit(p)
    \/ \E p \in Calls : CommitBusy(p)
    \/ \E p \in Calls : Rollback(p)
    \/ \E p \in Calls : Backoff(p)

SpecRelease == InitRelease /\ [][NextRelease]_vars

(* the committed counters differ from those at launch only once a call has
   succeeded *)
OnlySuccessIncrements ==
    CommittedAvailable # launch_available => DoneWith("return", Ok) # {}

(* C5 as claimed: of two returnBook calls for the same borrowing exactly one
   succeeds, the other fails with 'Active borrowing not found', and only the
   successful one increments available_copies *)
C5_OnceThenNotFound ==
    /\ OnlySuccessIncrements
    /\ AllDone({1, 2}) =>
          /\ Cardinality(DoneWith("return", Ok)) = 1
          /\ Cardinality(DoneWith("return", ErrNoBorrowing)) = 1

(* C5 as amended: of two returnBook calls for the same borrowing at most one
   succeeds and only that one increments available_copies; a call that does
   not succeed fails with 'Active borrowing not found', or with the lock error
   when its three attempts all met a locked database; when neither ran out of
   attempts exactly one succeeds *)
C5_AtMostOnceThenNotFound ==
    /\ OnlySuccessIncrements
    /\ Cardinality(DoneWith("return", Ok)) <= 1
    /\ AllDone({1, 2}) =>
          /\ \A p \in {1, 2} : call[p].outcome \in {Ok, ErrNoBorrowing, ErrLocked}
          /\ DoneWith("return", ErrLocked) = {} =>
                /\ Cardinality(DoneWith("return", Ok)) = 1
                /\ Cardinality(DoneWith("return", ErrNoBorrowing)) = 1

(* C5 witness: both calls have ended, one returned the book and the other
   found no active borrowing *)
C5_Witness ==
    /\ AllDone({1, 2})
    /\ call[1].args.target = call[2].args.target
    /\ DoneWith("return", Ok) # {} /\ DoneWith("return", ErrNoBorrowing) # {}

----------------------------------------------------------------------------
(* C6: a borrowBook that commits leaves available_copies of its book one
   below what it was before the transaction and has added exactly one row,
   active, with fine 0 and the user and book it was given *)
C6_BorrowTakesOne ==
    [][\A p \in Calls :
          Commits(p) /\ call[p].args.op = "borrow" =>
              LET b == call[p].args.target
                  n == Len(journal[2]) + 1
              IN /\ journal[1][b] > 0
                 /\ available_copies'[b] = journal[1][b] - 1
                 /\ Len(borrowings') = n
                 /\ \A i \in 1..(n - 1) : borrowings'[i] = journal[2][i]
                 /\ borrowings'[n].returned_date = Null
                 /\ borrowings'[n].fine_amount = CentsToAmount(0)
                 /\ borrowings'[n].user_id = call[p].args.userId
                 /\ borrowings'[n].book_id = b]_vars

(* C7: a returnBook that commits for a book with fewer available copies than
   total copies leaves available_copies one above what it was before the
   transaction, and its borrowing has a returned_date *)
C7_ReturnGivesOne ==
    [][\A p \in Calls :
          Commits(p) /\ call[p].args.op = "return" =>
              LET id == call[p].args.target
                  b == journal[2][id].book_id
              IN journal[2][id].returned_date = Null /\ journal[1][b] < total_copies[b] =>
                    /\ available_copies'[b] = journal[1][b] + 1
                    /\ borrowings'[id].returned_date # Null]_vars

----------------------------------------------------------------------------
(* C8: an attempt that finds available_copies = 0 throws 'No available
   copies' having written nothing; the error ends the call at once, it is not
   retried, and the state is the one from before the attempt.  So the calls
   that borrowed a book none of whose copies came back are never more than its
   total_copies: on a book with k copies the (k+1)-th borrowBook fails *)
C8_ExhaustedIsFatal ==
    /\ [][\A p \in Calls :
            /\ call[p].pc = "getBook" /\ call'[p] # call[p]
            /\ call[p].args.target \in Books
            /\ available_copies[call[p].args.target] = 0
            => /\ call'[p].pc = "rollback" /\ call'[p].err = ErrNoCopies
               /\ UNCHANGED db
               /\ available_copies = journal[1] /\ borrowings = journal[2]]_vars
    /\ [][\A p \in Calls :
            RollsBack(p) /\ call[p].err = ErrNoCopies
            => /\ call'[p].pc = "done" /\ call'[p].outcome = ErrNoCopies
               /\ available_copies' = journal[1] /\ borrowings' = journal[2]
               /\ writer' = NoCall]_vars
    /\ [](\A b \in Books :
            Returned(b) = {} => Cardinality(Borrowed(b)) <= total_copies[b])

(* C8 witness: a borrowBook for a book with no available copy has ended with
   'No available copies', and the book still has none *)
C8_Witness ==
    \E p \in DoneWith("borrow", ErrNoCopies) :
        /\ launch_available[call[p].args.target] = 0
        /\ available_copies[call[p].args.target] = 0

----------------------------------------------------------------------------
(* C9: the committed state changes only when a COMMIT succeeds, and then by
   the whole of the operation: a new active row together with a lower
   counter, or a returned row together with the clamped increment.  An attempt
   that fails is rolled back to the state from before it *)
BorrowCommitted(p) ==
    LET b == call[p].args.target
        n == Len(journal[2]) + 1
    IN /\ Len(borrowings') = n
       /\ borrowings'[n].book_id = b /\ borrowings'[n].returned_date = Null
       /\ available_copies'[b] < journal[1][b]

ReturnCommitted(p) ==
    LET id == call[p].args.target
        b == journal[2][id].book_id
    IN /\ journal[2][id].returned_date = Null
       /\ borrowings'[id].returned_date # Null
       /\ available_copies'[b] >= Min(total_copies[b], journal[1][b] + 1)

C9_AllOrNothing ==
    /\ [][CommittedAvailable' # CommittedAvailable \/ CommittedRows' # CommittedRows
          => \E p \in Calls :
                /\ Commits(p) /\ writer = p
                /\ IF call[p].args.op = "borrow" THEN BorrowCommitted(p)
                   ELSE ReturnCommitted(p)]_vars
    /\ [][\A p \in Calls :
            RollsBack(p) => /\ available_copies' = journal[1]
                            /\ borrowings' = journal[2]
                            /\ writer' = NoCall]_vars

(* C9 witness: a borrowBook whose INSERT was rejected after the decrement has
   ended, and the counters are those of the launch *)
C9_Witness ==
    \E p \in DoneWith("borrow", ErrCheck) :
        /\ launch_available[1] > 0
        /\ writer = NoCall
        /\ available_copies = launch_available

----------------------------------------------------------------------------
(* retry() on its own: fn is any synchronous function, and what its calls do
   (return, or throw one of the messages the two attempts throw) is given *)
FnOutcomes == {Ok, ErrBookNotFound, ErrNoCopies, ErrReserve, ErrNoBorrowing,
               ErrSetReturn, ErrCheck, ErrLocked}

InitRetry ==
    /\ InitDb
    /\ \E script \in [1..maxAttempts -> FnOutcomes] :
          call = [p \in Calls |->
                    IF p = 1
                    THEN [IdleCall EXCEPT !.pc = "fn", !.conn = 1, !.delay = initialDelayMs,
                                          !.args = [op |-> "retry", target |-> 0,
                                                    script |-> script]]
                    ELSE IdleCall]

(* try { return fn() } catch (err) { ... } *)
retryFn(p) ==
    /\ call[p].pc = "fn"
    /\ LET f == call[p]
           outcome == f.args.script[f.attempt + 1]
       IN call' = [call EXCEPT ![p] =
                IF outcome = Ok THEN Finished(f, Ok) ELSE RetryCatch(f, outcome)]
    /\ UNCHANGED <<db, writer, journal, busy_commits, launch_available>>

(* the loop without `delay *= retry.backoffFactor` *)
retryTimerFlat(p) ==
    /\ call[p].pc = "wait"
    /\ call' = [call EXCEPT ![p] = [@ EXCEPT !.pc = "fn"]]
    /\ UNCHANGED <<db, writer, journal, busy_commits, launch_available>>

(* the loop left after the wait instead of going round *)
retryTimerGivesUp(p) ==
    /\ call[p].pc = "wait"
    /\ call' = [call EXCEPT ![p] = Finished(@, ErrLocked)]
    /\ UNCHANGED <<db, writer, journal, busy_commits, launch_available>>

(* the backoff timer fires and the loop goes round *)
retryTimer(p) ==
    /\ call[p].pc = "wait"
    /\ call' = [call EXCEPT ![p] = [@ EXCEPT !.delay = @ * backoffFactor, !.pc = "fn"]]
    /\ UNCHANGED <<db, writer, journal, busy_commits, launch_available>>

NextRetry ==
    \/ \E p \in Calls : retryFn(p)
    \/ \E p \in Calls : retryTimer(p)

SpecRetry == InitRetry /\ [][NextRetry]_vars

FnThrows(p, message) ==
    /\ call[p].pc = "fn" /\ call'[p] # call[p]
    /\ call[p].args.script[call[p].attempt + 1] = message

(* C10 as claimed: when the attempt of borrowBook throws 'Failed to reserve
   copy' and attempts are left, the attempt is run again after the backoff *)
C10_ReserveFailureRetried ==
    [][\A p \in Calls :
          FnThrows(p, ErrReserve) /\ call[p].attempt + 1 < maxAttempts
          => call'[p].pc = "wait"]_vars

(* C10 as amended: when the attempt of borrowBook throws 'Failed to reserve
   copy' the call ends with that error at once, whatever attempts are left: it
   is not a lock error and is not retried *)
C10_ReserveFailureFatal ==
    [][\A p \in Calls :
          FnThrows(p, ErrReserve)
          => call'[p].pc = "done" /\ call'[p].outcome = ErrReserve]_vars

(* C10 witness: a call has ended with 'Failed to reserve copy' *)
C10_Witness ==
    \E p \in Calls : call[p].pc = "done" /\ call[p].outcome = ErrReserve

----------------------------------------------------------------------------
(* C11 as claimed: when the attempt of returnBook throws 'Failed to set
   return' and attempts are left, the attempt is run once more, and the error
   the caller gets in the end is 'Active borrowing not found', never 'Failed
   to set return' *)
C11_SetReturnFailureRetried ==
    /\ [][\A p \in Calls :
            FnThrows(p, ErrSetReturn) /\ call[p].attempt + 1 < maxAttempts
            => call'[p].pc = "wait"]_vars
    /\ [](\A p \in Calls : call[p].pc = "done" => call[p].outcome # ErrSetReturn)

(* C11 as amended: when the attempt of returnBook throws 'Failed to set
   return' the call ends at once, on whichever attempt, and the caller gets
   that very error: it is not run again and not turned into 'Active borrowing
   not found' *)
C11_SetReturnFailureFatal ==
    [][\A p \in Calls :
          FnThrows(p, ErrSetReturn)
          => /\ call'[p].pc = "done"
             /\ call'[p].outcome = ErrSetReturn
             /\ call'[p].outcome # ErrNoBorrowing]_vars

(* C11 witness: a call has ended with 'Failed to set return' *)
C11_Witness ==
    \E p \in Calls : call[p].pc = "done" /\ call[p].outcome = ErrSetReturn

----------------------------------------------------------------------------
(* C12: a call runs fn at most 3 times; it waits 50 ms after the first failed
   attempt and 100 ms after the second, and a failure of the third attempt
   ends the call without a wait *)
C12_ThreeAttemptsTwoWaits ==
    /\ [](\A p \in Calls :
            /\ call[p].attempt + 1 <= 3
            /\ call[p].pc = "wait" =>
                  \/ call[p].attempt = 1 /\ call[p].delay = 50
                  \/ call[p].attempt = 2 /\ call[p].delay = 100)
    /\ [][\A p \in Calls :
            /\ call[p].pc = "fn" /\ call'[p] # call[p]
            /\ call[p].attempt + 1 = 3
            => call'[p].pc = "done"]_vars

(* C12 witness: two attempts have failed and the call is in its second wait *)
C12_Witness ==
    \E p \in Calls : call[p].pc = "wait" /\ call[p].attempt = 2 /\ call[p].delay = 100

----------------------------------------------------------------------------
(* C13: a failed attempt is followed by a wait and another attempt exactly
   when it failed with the lock error on attempt 1 or 2; any other error ends
   the call in that attempt, with that error and without a wait *)
C13_RetriedIffTransient ==
    [][\A p \in Calls : \A m \in FnOutcomes \ {Ok} :
          FnThrows(p, m)
          => /\ call'[p].pc = "wait" <=> (m = ErrLocked /\ call[p].attempt + 1 < 3)
             /\ call'[p].pc = "wait" => call'[p].attempt = call[p].attempt + 1
             /\ m # ErrLocked => call'[p].pc = "done" /\ call'[p].outcome = m]_vars

(* C13 witness: the first attempt met a locked database and was retried; the
   second is about to fail with an error that is not a lock error *)
C13_Witness ==
    \E p \in Calls :
        /\ call[p].pc = "fn" /\ call[p].attempt = 1
        /\ call[p].args.script[1] = ErrLocked
        /\ call[p].args.script[2] = ErrNoCopies

----------------------------------------------------------------------------
(* Two calls, each a borrowBook or a returnBook with any of the inputs of
   Spec, from one process or from two, on any database the invariants of the
   schema allow *)
InitPair ==
    /\ InitDb
    /\ call = [p \in Calls |-> IdleCall]

NextPair ==
    \/ \E p \in {1, 2}, c \in Conns, a \in BorrowInputs :
          borrowBook(p, c, Num(a.userId), Num(a.bookId), a.due)
    \/ \E p \in {1, 2}, c \in Conns, a \in ReturnInputs(CommittedRows) :
          returnBook(p, c, Num(a.borrowingId), Num(a.fineAmountCents))
    \/ \E p \in Calls : getBookForUpdate(p)
    \/ \E p \in Calls : decrementBook(p)
    \/ \E p \in Calls : insertBorrowing(p)
    \/ \E p \in Calls : getBr(p)
    \/ \E p \in Calls : setReturned(p)
    \/ \E p \in Calls : incrementBook(p)
    \/ \E p \in Calls : Commit(p)
    \/ \E p \in Calls : CommitBusy(p)
    \/ \E p \in Calls : Rollback(p)
    \/ \E p \in Calls : Backoff(p)

SpecPair == InitPair /\ [][NextPair]_vars

----------------------------------------------------------------------------
(* a call ends because its last attempt met a locked database: at
   BEGIN IMMEDIATE, or at COMMIT and then through ROLLBACK *)
EndsLocked(p) == Finishes(p) /\ call'[p].outcome = ErrLocked
LastAttemptLocked(p) ==
    /\ call[p].attempt + 1 = maxAttempts
    /\ call'[p] # call[p]
    /\ \/ call[p].pc = "wait" /\ writer # NoCall
       \/ call[p].pc = "rollback" /\ call[p].err = ErrLocked

(* C14: a call whose three attempts all fail with the lock error ends with
   that error, and only such a call does; the step that ends it changes
   nothing that is committed, leaves the working state as it was before the
   attempt, and leaves no transaction of the call open *)
C14_LockedOutAfterThree ==
    /\ [][\A p \in Calls : LastAttemptLocked(p) => EndsLocked(p)]_vars
    /\ [][\A p \in Calls :
            EndsLocked(p)
            => /\ call[p].attempt + 1 = 3
               /\ writer' # p
               /\ CommittedAvailable' = CommittedAvailable
               /\ CommittedRows' = CommittedRows
               /\ writer = p => available_copies' = journal[1] /\ borrowings' = journal[2]
               /\ writer # p => UNCHANGED db]_vars

(* C14 witness: a borrowBook or a returnBook has ended with the lock error
   and holds no transaction *)
C14_Witness ==
    \E p \in Calls :
        /\ call[p].pc = "done" /\ call[p].outcome = ErrLocked
        /\ call[p].args.op \in {"borrow", "return"}
        /\ writer # p

----------------------------------------------------------------------------
(* C15: a borrowBook that commits on its third attempt, the first two having
   met the lock error, has the effect of one acquisition: available_copies of
   its book is one below what it was and exactly one row has been added, the
   failed attempts having left nothing *)
C15_ThirdAttemptTakesOne ==
    [][\A p \in Calls :
          Commits(p) /\ call[p].args.op = "borrow" /\ call[p].attempt = 2 =>
              LET b == call[p].args.target
              IN /\ available_copies'[b] = journal[1][b] - 1
                 /\ \A o \in Books \ {b} : available_copies'[o] = journal[1][o]
                 /\ Len(borrowings') = Len(journal[2]) + 1
                 /\ Cardinality(ActiveRows(borrowings', b))
                       = Cardinality(ActiveRows(journal[2], b)) + 1]_vars

----------------------------------------------------------------------------
(* One call with whatever a caller may pass: ids and amounts that are
   negative, zero, positive, fractional or NaN, and due dates that are past,
   today, future or not a date *)
NumberInputs == {Num(-1), Num(0), Num(1), Num(2), Frac(3, 2), NaN}
FineInputs == NumberInputs \cup {Num(350)}
DueInputs == {DueIn(-1), DueIn(0), DueIn(7), Malformed}

InitInputs ==
    /\ InitDb
    /\ call = [p \in Calls |-> IdleCall]

NextInputs ==
    \/ \E userId \in NumberInputs, bookId \in NumberInputs, due \in DueInputs :
          borrowBook(1, 1, userId, bookId, due)
    \/ \E borrowingId \in NumberInputs, fine \in FineInputs :
          returnBook(1, 1, borrowingId, fine)
    \/ \E p \in Calls : getBookForUpdate(p)
    \/ \E p \in Calls : decrementBook(p)
    \/ \E p \in Calls : insertBorrowing(p)
    \/ \E p \in Calls : getBr(p)
    \/ \E p \in Calls : setReturned(p)
    \/ \E p \in Calls : incrementBook(p)
    \/ \E p \in Calls : Commit(p)
    \/ \E p \in Calls : CommitBusy(p)
    \/ \E p \in Calls : Rollback(p)
    \/ \E p \in Calls : Backoff(p)

SpecInputs == InitInputs /\ [][NextInputs]_vars

(* a running borrowBook whose due date is a date before today *)
DueBeforeToday(p) ==
    /\ call[p].pc \in RunningPcs \cup {"wait"}
    /\ call[p].args.op = "borrow"
    /\ call[p].args.due.wellFormed
    /\ call[p].args.due.day < Today

(* C16: a borrowBook whose due date is a well-formed date before today never
   succeeds and commits nothing in any of its steps; when it gets as far as
   the insert (the decrement done), the insert is rejected, the attempt is
   rolled back to the counters and rows from before it, and the call ends
   with that rejection without another attempt *)
C16_PastDueRejected ==
    [][\A p \in Calls :
          DueBeforeToday(p) /\ call'[p] # call[p]
          => /\ CommittedAvailable' = CommittedAvailable
             /\ CommittedRows' = CommittedRows
             /\ Finishes(p) => call'[p].outcome # Ok
             /\ call[p].pc = "insertBorrowing"
                   => /\ available_copies[call[p].args.target]
                            = journal[1][call[p].args.target] - 1
                      /\ call'[p].pc = "rollback" /\ call'[p].err = ErrCheck
                      /\ UNCHANGED borrowings
             /\ call[p].pc = "rollback" /\ call[p].err = ErrCheck
                   => /\ call'[p].pc = "done" /\ call'[p].outcome = ErrCheck
                      /\ call[p].attempt = 0
                      /\ available_copies' = journal[1] /\ borrowings' = journal[2]
                      /\ writer' = NoCall]_vars

(* C16 witness: the call has ended with the rejection of its insert; every
   counter is the one of the launch and no row was added *)
C16_Witness ==
    /\ call[1].pc = "done" /\ call[1].args.op = "borrow" /\ call[1].outcome = ErrCheck
    /\ available_copies = launch_available
    /\ \A i \in 1..Len(borrowings) : borrowings[i].borrowed_date # Today
    /\ writer = NoCall

----------------------------------------------------------------------------
(* what the input checks let through *)
PositiveIntegers == {Num(n) : n \in 1..2}
NonNegativeIntegers == {Num(0), Num(1), Num(2), Num(350)}
InputErrors == {ErrInvalidUserId, ErrInvalidBookId, ErrInvalidDueDate,
                ErrInvalidBorrowingId, ErrInvalidFine}

(* the call ends in the step that makes it, with an input error, no
   transaction opened, no attempt made and nothing written *)
Rejected(p) ==
    /\ call'[p].pc = "done"
    /\ call'[p].outcome \in InputErrors
    /\ call'[p].attempt = 0
    /\ writer' = NoCall /\ journal' = NoJournal
    /\ UNCHANGED <<db, busy_commits>>

(* C17: borrowBook with a userId or bookId that is not a positive integer or
   with a malformed date, and returnBook with a borrowingId that is not a
   positive integer or a fine that is not a non-negative integer, fail in the
   call itself: no transaction is opened, no attempt is made, nothing is
   written *)
C17_BadInputRejectedAtOnce ==
    /\ [][\A userId \in NumberInputs, bookId \in NumberInputs, due \in DueInputs :
            /\ \/ userId \notin PositiveIntegers
               \/ bookId \notin PositiveIntegers
               \/ due = Malformed
            /\ borrowBook(1, 1, userId, bookId, due)
            => Rejected(1)]_vars
    /\ [][\A borrowingId \in NumberInputs, fine \in FineInputs :
            /\ \/ borrowingId \notin PositiveIntegers
               \/ fine \notin NonNegativeIntegers
            /\ returnBook(1, 1, borrowingId, fine)
            => Rejected(1)]_vars

(* C17 witness: a call has been rejected for its input and the database is
   as it was, with no transaction open *)
C17_Witness ==
    /\ call[1].pc = "done" /\ call[1].outcome \in InputErrors
    /\ writer = NoCall /\ journal = NoJournal
    /\ available_copies = launch_available

----------------------------------------------------------------------------
(* C18: a committed row of borrowings that has a returned_date is never
   changed again, whatever returnBook is called with; a row is active when it
   is created; returnBook commits only for a row that was active; and its
   lookup fails with 'Active borrowing not found' alike for an id no row has
   and for a row already returned, which ends the call *)
C18_ReleasedIsFinal ==
    /\ [][\A i \in 1..Len(CommittedRows) :
            CommittedRows[i].returned_date # Null
            => /\ i <= Len(CommittedRows') /\ CommittedRows'[i] = CommittedRows[i]
               /\ i <= Len(borrowings') /\ borrowings'[i] = CommittedRows[i]]_vars
    /\ [][\A i \in 1..Len(CommittedRows') :
            i > Len(CommittedRows) => CommittedRows'[i].returned_date = Null]_vars
    /\ [][\A p \in Calls :
            Commits(p) /\ call[p].args.op = "return"
            => /\ journal[2][call[p].args.target].returned_date = Null
               /\ borrowings'[call[p].args.target].returned_date # Null]_vars
    /\ [][\A p \in Calls :
            /\ call[p].pc = "getBr" /\ call'[p] # call[p]
            /\ \/ call[p].args.target \notin 1..Len(borrowings)
               \/ borrowings[call[p].args.target].returned_date # Null
            => call'[p].pc = "rollback" /\ call'[p].err = ErrNoBorrowing]_vars
    /\ [][\A p \in Calls :
            RollsBack(p) /\ call[p].err = ErrNoBorrowing
            => call'[p].pc = "done" /\ call'[p].outcome = ErrNoBorrowing]_vars

(* C18 witness: a row was returned with a fine of 3.50; a later returnBook
   for it with another fine has failed, and the row still has its fine *)
C18_Witness ==
    \E p \in DoneWith("return", ErrNoBorrowing) :
        /\ call[p].args.target \in 1..Len(borrowings)
        /\ borrowings[call[p].args.target].returned_date # Null
        /\ borrowings[call[p].args.target].fine_amount = CentsToAmount(350)

----------------------------------------------------------------------------
(* Two calls for two books: call 1 borrows or returns a copy of book 1, then
   call 2 borrows or returns a copy of book 2, from the same process or from
   another one.  No reader holds up a COMMIT *)
RowsOf(rows, b) == {i \in 1..Len(rows) : rows[i].book_id = b}

InitTwoBooks ==
    /\ InitDb
    /\ call = [p \in Calls |-> IdleCall]

NextTwoBooks ==
    \/ \E p \in {1, 2}, c \in Conns : borrowBook(p, c, Num(1), Num(p), DueIn(7))
    \/ \E p \in {1, 2}, c \in Conns : \E id \in RowsOf(CommittedRows, p) :
          /\ CommittedRows[id].returned_date = Null
          /\ returnBook(p, c, Num(id), Num(0))
    \/ \E p \in Calls : getBookForUpdate(p)
    \/ \E p \in Calls : decrementBook(p)
    \/ \E p \in Calls : insertBorrowing(p)
    \/ \E p \in Calls : getBr(p)
    \/ \E p \in Calls : setReturned(p)
    \/ \E p \in Calls : incrementBook(p)
    \/ \E p \in Calls : Commit(p)
    \/ \E p \in Calls : Rollback(p)
    \/ \E p \in Calls : Backoff(p)

SpecTwoBooks == InitTwoBooks /\ [][NextTwoBooks]_vars

(* what call p ends with when it runs alone: book p is its book *)
OutcomeAlone(p) ==
    IF call[p].args.op = "borrow" /\ launch_available[p] = 0 THEN ErrNoCopies ELSE Ok

(* C19 as claimed: a call for one book is never made to wait for a retry nor
   to fail by the call for the other book, and ends as it would alone *)
C19_BooksIndependent ==
    \A p \in {1, 2} :
        /\ call[p].pc # "wait"
        /\ call[p].pc = "done" => call[p].outcome = OutcomeAlone(p)

(* C19 as amended: a call for one book writes nothing of the other book and
   ends as it would alone, unless the call for the other book held the write
   lock of the database at each of its three attempts, in which case it ends
   with the lock error; until then it may be made to wait and retry *)
C19_BooksShareOneLock ==
    /\ [](\A p \in {1, 2} :
            call[p].pc = "done" => call[p].outcome \in {OutcomeAlone(p), ErrLocked})
    /\ [][\A p \in {1, 2} :
            writer = p /\ call'[p] # call[p]
            => \A o \in Books \ {p} :
                  /\ available_copies'[o] = available_copies[o]
                  /\ RowsOf(borrowings', o) = RowsOf(borrowings, o)
                  /\ \A i \in RowsOf(borrowings, o) : borrowings'[i] = borrowings[i]]_vars
    /\ [][\A p \in {1, 2} :
            call'[p].pc = "wait" /\ call[p].pc # "wait"
            => writer \in {1, 2} \ {p}]_vars

(* C19 witness: the call for book 2 waits for its retry while the call for
   book 1 holds the write lock *)
C19_Witness ==
    /\ call[2].pc = "wait" /\ call[2].args.target # call[1].args.target
    /\ writer = 1

----------------------------------------------------------------------------
(* the time a call has spent waiting when the timer of its n-th wait fires *)
RECURSIVE WaitedBy(_)
WaitedBy(n) ==
    IF n = 0 THEN 0 ELSE WaitedBy(n - 1) + initialDelayMs * backoffFactor ^ (n - 1)

(* deadlines a caller might have in mind, in ms *)
Deadlines == {25, 75, 125, 200}

(* C20 as claimed: when the deadline of the caller has passed by the end of a
   wait, the call ends there, with an error that is none of the attempt's
   own (Timeout) *)
C20_DeadlineEndsRetry ==
    [][\A p \in Calls : \A deadline \in Deadlines :
          /\ call[p].pc = "wait" /\ call'[p] # call[p]
          /\ WaitedBy(call[p].attempt) >= deadline
          => call'[p].pc = "done" /\ call'[p].outcome \notin FnOutcomes]_vars

(* C20 as amended: retry() takes no deadline and is bounded by its attempts
   alone: after each wait fn is run again, however long the call has waited
   (at most 50 + 100 ms), and a call ends only with the result or the error
   of an attempt, never with Timeout *)
C20_AttemptsAloneEndRetry ==
    /\ [][\A p \in Calls :
            call[p].pc = "wait" /\ call'[p] # call[p]
            => call'[p].pc = "fn" /\ call'[p].attempt = call[p].attempt]_vars
    /\ [](\A p \in Calls :
            /\ call[p].pc = "wait" => WaitedBy(call[p].attempt) <= 150
            /\ call[p].pc = "done" => call[p].outcome \in FnOutcomes)

(* C20 witness: the third attempt runs after 150 ms of waiting, past every
   deadline shorter than that *)
C20_Witness ==
    \E p \in Calls :
        /\ call[p].pc = "fn" /\ call[p].attempt = 2
        /\ \E deadline \in Deadlines : WaitedBy(call[p].attempt) >= deadline

----------------------------------------------------------------------------
(* Deleting a row of books, on a connection of LibraryDatabase, while calls
   of borrowBook and returnBook go on *)

(* ids that a DELETE is tried on: the two books and an id of no book *)
DeleteInputs == Books \cup {3}

(* rows of borrowings that reference book b, returned or not *)
ReferencingRows(rows, b) == {i \in 1..Len(rows) : rows[i].book_id = b}

(* the books table without the row of book b *)
WithoutBook(column, b) == [o \in (DOMAIN column) \ {b} |-> column[o]]

(* the DELETE on a connection that has not run PRAGMA foreign_keys = ON *)
deleteBookUnenforced(p, c, b) ==
    /\ CanCall(p, c)
    /\ LET f == [IdleCall EXCEPT !.conn = c, !.args = [op |-> "delete", target |-> b]]
       IN IF writer # NoCall
          THEN /\ call' = [call EXCEPT ![p] = Finished(f, ErrLocked)]
               /\ UNCHANGED <<available_copies, total_copies>>
          ELSE /\ available_copies' = WithoutBook(available_copies, b)
               /\ total_copies' = WithoutBook(total_copies, b)
               /\ call' = [call EXCEPT ![p] = Finished(f, Ok)]
    /\ UNCHANGED <<borrowings, writer, journal, busy_commits, launch_available>>

(* connection.run('DELETE FROM books WHERE id = ?', b): one statement in its
   own transaction.  It needs the write lock, and with foreign_keys = ON the
   FOREIGN KEY (book_id) REFERENCES books(id) ON DELETE RESTRICT of borrowings
   refuses it while a row of borrowings references the book *)
deleteBook(p, c, b) ==
    /\ CanCall(p, c)
    /\ LET f == [IdleCall EXCEPT !.conn = c, !.args = [op |-> "delete", target |-> b]]
       IN IF writer # NoCall
          THEN /\ call' = [call EXCEPT ![p] = Finished(f, ErrLocked)]
               /\ UNCHANGED <<available_copies, total_copies>>
          ELSE IF ReferencingRows(borrowings, b) # {}
          THEN /\ call' = [call EXCEPT ![p] = Finished(f, ErrForeignKey)]
               /\ UNCHANGED <<available_copies, total_copies>>
          ELSE /\ available_copies' = WithoutBook(available_copies, b)
               /\ total_copies' = WithoutBook(total_copies, b)
               /\ call' = [call EXCEPT ![p] = Finished(f, Ok)]
    /\ UNCHANGED <<borrowings, writer, journal, busy_commits, launch_available>>

InitDelete ==
    /\ InitDb
    /\ call = [p \in Calls |-> IdleCall]

NextDelete ==
    \/ \E p \in {1, 2}, c \in Conns, b \in DeleteInputs : deleteBook(p, c, b)
    \/ \E p \in {1, 2}, c \in Conns, a \in BorrowInputs :
          borrowBook(p, c, Num(a.userId), Num(a.bookId), a.due)
    \/ \E p \in {1, 2}, c \in Conns, a \in ReturnInputs(CommittedRows) :
          returnBook(p, c, Num(a.borrowingId), Num(a.fineAmountCents))
    \/ \E p \in Calls : getBookForUpdate(p)
    \/ \E p \in Calls : decrementBook(p)
    \/ \E p \in Calls : insertBorrowing(p)
    \/ \E p \in Calls : getBr(p)
    \/ \E p \in Calls : setReturned(p)
    \/ \E p \in Calls : incrementBook(p)
    \/ \E p \in Calls : Commit(p)
    \/ \E p \in Calls : CommitBusy(p)
    \/ \E p \in Calls : Rollback(p)
    \/ \E p \in Calls : Backoff(p)

SpecDelete == InitDelete /\ [][NextDelete]_vars

(* the step is a DELETE of a book *)
Deletes(p) == call[p].pc = "idle" /\ call'[p].pc = "done" /\ call'[p].args.op = "delete"

(* C21: a DELETE of a book that an active borrowing references is refused and
   changes no table, and every row of borrowings, in the working state and in
   the committed state, references a row of books *)
C21_ReferencedBookStays ==
    /\ [][\A p \in Calls :
            Deletes(p) /\ ActiveRows(CommittedRows, call'[p].args.target) # {}
            => /\ call'[p].outcome \in {ErrForeignKey, ErrLocked}
               /\ db' = db]_vars
    /\ [](\A i \in 1..Len(borrowings) : borrowings[i].book_id \in DOMAIN total_copies)
    /\ [](\A i \in 1..Len(CommittedRows) : CommittedRows[i].book_id \in DOMAIN total_copies)
    /\ [](DOMAIN available_copies = DOMAIN total_copies)

(* a DELETE of a book with an active borrowing has been refused by the foreign
   key, and a book that no borrowing references has been deleted *)
C21_Witness ==
    \E p, q \in Calls :
        /\ call[p].pc = "done" /\ call[p].args.op = "delete"
        /\ call[p].outcome = ErrForeignKey
        /\ ActiveRows(borrowings, call[p].args.target) # {}
        /\ call[q].pc = "done" /\ call[q].args.op = "delete"
        /\ call[q].outcome = Ok
        /\ DOMAIN total_copies # Books

----------------------------------------------------------------------------
(* C22: the INSERT of an active borrowing for a book whose available_copies
   is 0 is aborted by trg_borrowings_decrement_available: no row is added and
   the statement throws *)
C22_InsertAbortsAtZero ==
    [][\A p \in Calls :
         /\ call[p].pc = "insertBorrowing"
         /\ call'[p] # call[p]
         /\ call[p].args.target \in DOMAIN available_copies
         /\ available_copies[call[p].args.target] = 0
         => /\ borrowings' = borrowings
            /\ call'[p].pc = "rollback"]_vars

----------------------------------------------------------------------------
(* C23: borrowBook and returnBook return normally only from the step in which
   their COMMIT succeeds: the call held the open transaction, the step ends
   it and releases the lock, and what the transaction wrote is the committed
   state.  No call that has returned normally holds a transaction *)
C23_SuccessOnlyAfterCommit ==
    /\ [][\A p \in Calls :
            Finishes(p) /\ call'[p].outcome = Ok
            => /\ call[p].pc = "commit"
               /\ writer = p /\ journal # NoJournal
               /\ writer' = NoCall /\ journal' = NoJournal
               /\ CommittedAvailable' = available_copies
               /\ CommittedRows' = borrowings]_vars
    /\ [](\A p \in Calls : call[p].pc = "done" /\ call[p].outcome = Ok => writer # p)

(* a call has returned normally on an attempt after one whose COMMIT failed
   and was rolled back *)
C23_Witness ==
    \E p \in Calls :
        /\ call[p].pc = "done" /\ call[p].outcome = Ok
        /\ call[p].args.op \in {"borrow", "return"}
        /\ busy_commits > 0
        /\ \A q \in Calls \ {p} : call[q].pc = "idle"
        /\ writer = NoCall

----------------------------------------------------------------------------
(* Attempts that fail with an error on which the store ends the transaction
   by itself, so that the ROLLBACK of the catch block fails *)

ErrStore == "disk I/O error"
ErrNoTransaction == "cannot rollback - no transaction is active"

(* positions of the statements inside the try block of fn *)
TryPcs == RunningPcs \ {"rollback"}

(* a statement of the try block throws an error that is not a lock error, and
   the store has rolled the transaction back and released the lock before
   the catch block runs *)
StatementAborts(p) ==
    /\ call[p].pc \in TryPcs
    /\ writer = p
    /\ available_copies' = journal[1]
    /\ borrowings' = journal[2]
    /\ writer' = NoCall
    /\ journal' = NoJournal
    /\ call' = [call EXCEPT ![p] = Throw(@, ErrStore)]
    /\ UNCHANGED <<total_copies, busy_commits, launch_available>>

(* the catch of fn letting the error of its ROLLBACK out *)
RollbackFailsRethrown(p) ==
    /\ call[p].pc = "rollback"
    /\ writer # p
    /\ call' = [call EXCEPT ![p] = RetryCatch(@, ErrNoTransaction)]
    /\ UNCHANGED <<db, writer, journal, busy_commits, launch_available>>

(* catch (err) { try { this.db.run('ROLLBACK') } catch {}; throw err } when
   no transaction of the connection is open: ROLLBACK throws, the empty catch
   drops that error, and err goes on to the catch block of retry() *)
RollbackFails(p) ==
    /\ call[p].pc = "rollback"
    /\ writer # p
    /\ call' = [call EXCEPT ![p] = RetryCatch(@, @.err)]
    /\ UNCHANGED <<db, writer, journal, busy_commits, launch_available>>

InitAbort ==
    /\ InitDb
    /\ call = [p \in Calls |-> IdleCall]

NextAbort ==
    \/ \E p \in {1, 2}, c \in Conns, a \in BorrowInputs :
          borrowBook(p, c, Num(a.userId), Num(a.bookId), a.due)
    \/ \E p \in {1, 2}, c \in Conns, a \in ReturnInputs(CommittedRows) :
          returnBook(p, c, Num(a.borrowingId), Num(a.fineAmountCents))
    \/ \E p \in Calls : getBookForUpdate(p)
    \/ \E p \in Calls : decrementBook(p)
    \/ \E p \in Calls : insertBorrowing(p)
    \/ \E p \in Calls : getBr(p)
    \/ \E p \in Calls : setReturned(p)
    \/ \E p \in Calls : incrementBook(p)
    \/ \E p \in Calls : Commit(p)
    \/ \E p \in Calls : CommitBusy(p)
    \/ \E p \in Calls : StatementAborts(p)
    \/ \E p \in Calls : Rollback(p)
    \/ \E p \in Calls : RollbackFails(p)
    \/ \E p \in Calls : Backoff(p)

SpecAbort == InitAbort /\ [][NextAbort]_vars

(* the attempt of call p ends in failure: the call goes to its backoff wait
   or throws *)
AttemptFails(p) ==
    /\ call[p].pc \in RunningPcs
    /\ \/ call'[p].pc = "wait"
       \/ call'[p].pc = "done" /\ call'[p].outcome # Ok

(* C24: an attempt that fails after BEGIN IMMEDIATE leaves fn through the
   ROLLBACK of the catch block; the error that is then retried or thrown is
   the one the try block threw, also when ROLLBACK itself fails; the step
   leaves the tables as they were before the attempt and the call without a
   transaction, and no call that waits or has ended holds one *)
C24_RollbackThenOriginalError ==
    /\ [][\A p \in Calls :
            AttemptFails(p)
            => /\ call[p].pc = "rollback"
               /\ call[p].err \notin {NoError, ErrNoTransaction}
               /\ call'[p].pc = "done" => call'[p].outcome = call[p].err
               /\ call'[p].pc = "wait" => isBusy(call[p].err)
               /\ writer' # p
               /\ writer = p => /\ available_copies' = journal[1]
                                /\ borrowings' = journal[2]
                                /\ writer' = NoCall
               /\ writer # p => UNCHANGED <<db, writer>>]_vars
    /\ [](\A p \in Calls : call[p].pc \in {"idle", "wait", "done"} => writer # p)

(* a call has thrown the error of its statement after the store had ended the
   transaction and ROLLBACK had failed, and a later call has committed *)
C24_Witness ==
    \E p, q \in Calls :
        /\ p < q
        /\ call[p].pc = "done" /\ call[p].outcome = ErrStore
        /\ call[q].pc = "done" /\ call[q].outcome = Ok
        /\ writer = NoCall

----------------------------------------------------------------------------
(* call p is inside the try block of returnBook, and the book of the
   borrowing that it returns has every copy available *)
ReturnsAtCeiling(p) ==
    /\ call[p].args.op = "return"
    /\ call[p].pc \in {"getBr", "setReturned", "incrementBook", "commit"}
    /\ call[p].args.target \in 1..Len(borrowings)
    /\ LET b == borrowings[call[p].args.target].book_id
       IN available_copies[b] = total_copies[b]

(* C25: returnBook of an active borrowing of a book whose available_copies
   equals total_copies: the UPDATE of the borrowing, the increment statement
   and COMMIT all go through, the borrowing is returned, and available_copies
   stays equal to total_copies at every step *)
C25_ReturnAtCeilingClamped ==
    [][\A p \in Calls :
         ReturnsAtCeiling(p) /\ call'[p] # call[p]
         => LET id == call[p].args.target
                b == borrowings[id].book_id
            IN /\ available_copies'[b] = total_copies'[b]
               /\ total_copies'[b] = total_copies[b]
               /\ call[p].pc = "getBr" /\ borrowings[id].returned_date = Null
                  => call'[p].pc = "setReturned"
               /\ call[p].pc = "setReturned" /\ borrowings[id].returned_date = Null
                  => /\ call'[p].pc = "incrementBook"
                     /\ borrowings'[id].returned_date = Today
               /\ call[p].pc = "incrementBook" => call'[p].pc = "commit"
               /\ call[p].pc = "commit" /\ call'[p].pc # "rollback"
                  => /\ call'[p].pc = "done" /\ call'[p].outcome = Ok
                     /\ borrowings'[id].returned_date = Today]_vars

(* both borrowings of a book with two copies have been returned one after the
   other: the second returnBook met available_copies = total_copies *)
C25_Witness ==
    \E p, q \in DoneWith("return", Ok) :
        /\ call[p].args.target # call[q].args.target
        /\ borrowings[call[p].args.target].book_id = borrowings[call[q].args.target].book_id
        /\ LET b == borrowings[call[p].args.target].book_id
           IN /\ total_copies[b] = 2
              /\ available_copies[b] = 2
              /\ launch_available[b] = 0

----------------------------------------------------------------------------
(* a stored fine_amount in hundredths *)
AmountInCents(amount) == 100 * amount.units + amount.hundredths

(* C26: every active borrowing has fine_amount 0 and every returned one a
   fine_amount >= 0, in the working and in the committed state; the
   returnBook that returns a borrowing stores fineAmountCents / 100 in it,
   that amount is what its COMMIT makes the committed fine_amount, and the
   committed fine_amount of a returned borrowing never changes afterwards *)
C26_FineIsWhatReturnPassed ==
    /\ [](\A rows \in {borrowings, CommittedRows} : \A i \in 1..Len(rows) :
            /\ rows[i].returned_date = Null => AmountInCents(rows[i].fine_amount) = 0
            /\ AmountInCents(rows[i].fine_amount) >= 0
            /\ rows[i].fine_amount.hundredths \in 0..99)
    /\ [][\A p \in Calls :
            call[p].pc = "setReturned" /\ borrowings' # borrowings
            => AmountInCents(borrowings'[call[p].args.target].fine_amount)
                   = call[p].args.fine]_vars
    /\ [][\A p \in Calls :
            Commits(p) /\ call[p].args.op = "return"
            => AmountInCents(CommittedRows'[call[p].args.target].fine_amount)
                   = call[p].args.fine]_vars
    /\ [][\A i \in 1..Len(CommittedRows) :
            CommittedRows[i].returned_date # Null
            => CommittedRows'[i].fine_amount = CommittedRows[i].fine_amount]_vars

(* a borrowing returned with fineAmountCents = 350 is committed with
   fine_amount 3.50 next to an active borrowing with fine_amount 0 *)
C26_Witness ==
    /\ writer = NoCall
    /\ \E p \in DoneWith("return", Ok) :
          /\ borrowings[call[p].args.target].returned_date # Null
          /\ borrowings[call[p].args.target].fine_amount = [units |-> 3, hundredths |-> 50]
    /\ \E i \in 1..Len(borrowings) :
          borrowings[i].returned_date = Null /\ AmountInCents(borrowings[i].fine_amount) = 0

----------------------------------------------------------------------------
(* what a step or a transaction may change: nothing but the counter of book
   b, the rows of borrowings in `changed`, and rows added at the end *)
ChangesOnly(availBefore, availAfter, rowsBefore, rowsAfter, b, changed, added) ==
    /\ DOMAIN availAfter = DOMAIN availBefore
    /\ \A o \in (DOMAIN availBefore) \ {b} : availAfter[o] = availBefore[o]
    /\ Len(rowsAfter) = Len(rowsBefore) + added
    /\ \A i \in (1..Len(rowsBefore)) \ changed : rowsAfter[i] = rowsBefore[i]

(* the book that the borrowing with this id references, 0 when there is no
   such borrowing *)
BookOf(rows, id) == IF id \in 1..Len(rows) THEN rows[id].book_id ELSE 0

(* C27: no step changes total_copies or removes a book or a borrowing.  Each
   statement of borrowBook for book R changes at most available_copies of R
   and adds at most one row; each statement of returnBook of borrowing e
   changes at most e and available_copies of the book of e.  A committed
   borrowBook has changed the counter of R alone and added exactly one row; a
   committed returnBook has changed e alone and the counter of its book
   alone; a step that is no COMMIT changes nothing that is committed *)
C27_FrameOfBorrowAndReturn ==
    /\ [][/\ total_copies' = total_copies
          /\ DOMAIN available_copies' = DOMAIN available_copies
          /\ Len(CommittedRows') >= Len(CommittedRows)]_vars
    /\ [][\A p \in Calls :
            call[p].pc \in TryPcs /\ call'[p] # call[p]
            => IF call[p].args.op = "borrow"
               THEN \E added \in {0, 1} :
                       ChangesOnly(available_copies, available_copies',
                                   borrowings, borrowings',
                                   call[p].args.target, {}, added)
               ELSE ChangesOnly(available_copies, available_copies',
                                borrowings, borrowings',
                                BookOf(borrowings, call[p].args.target),
                                {call[p].args.target}, 0)]_vars
    /\ [][\A p \in Calls :
            Commits(p)
            => IF call[p].args.op = "borrow"
               THEN ChangesOnly(CommittedAvailable, CommittedAvailable',
                                CommittedRows, CommittedRows',
                                call[p].args.target, {}, 1)
               ELSE ChangesOnly(CommittedAvailable, CommittedAvailable',
                                CommittedRows, CommittedRows',
                                BookOf(CommittedRows, call[p].args.target),
                                {call[p].args.target}, 0)]_vars
    /\ [][(\A p \in Calls : ~Commits(p))
          => /\ CommittedAvailable' = CommittedAvailable
             /\ CommittedRows' = CommittedRows]_vars

(* a borrowBook of one book and a returnBook of a borrowing of the other book
   have both committed *)
C27_Witness ==
    /\ writer = NoCall
    /\ \E p \in DoneWith("borrow", Ok), q \in DoneWith("return", Ok) :
          /\ borrowings[call[q].args.target].book_id # call[p].args.target
          /\ borrowings[call[q].args.target].returned_date # Null
          /\ available_copies[call[p].args.target] < launch_available[call[p].args.target]

----------------------------------------------------------------------------
(* retry() under the scheduling of the JavaScript runtime: fn is synchronous
   and returns or throws, and a timer set by setTimeout fires *)
SpecRetryFair ==
    /\ InitRetry
    /\ [][NextRetry]_vars
    /\ \A p \in Calls : WF_vars(retryFn(p)) /\ WF_vars(retryTimer(p))

(* C28: a call of retry() that is running or waiting ends, by returning or by
   throwing, whatever fn does on each attempt, also when every attempt throws
   the lock error; until then it has failed at most 2 attempts, it waits only
   after the first and after the second failed attempt, and once ended it
   stays ended *)
C28_CallEnds ==
    /\ \A p \in Calls : (call[p].pc \in {"fn", "wait"}) ~> (call[p].pc = "done")
    /\ [](\A p \in Calls :
            /\ call[p].attempt <= maxAttempts - 1
            /\ call[p].pc = "wait" => call[p].attempt \in {1, 2})
    /\ [][\A p \in Calls : call[p].pc = "done" => call'[p] = call[p]]_vars

(* the call of retry() has thrown the lock error: every one of its three
   attempts met it *)
C28_Witness ==
    /\ call[1].args.op = "retry"
    /\ call[1].pc = "done"
    /\ call[1].outcome = ErrLocked

----------------------------------------------------------------------------
(* the other calls made on the connection of call p *)
SameConnection(p) == {q \in Calls \ {p} : call[q].conn = call[p].conn /\ call[q].conn # NoConn}

(* C29: of the calls made on one connection at most one is inside an attempt
   (between its BEGIN IMMEDIATE and the end of its COMMIT or ROLLBACK); while
   it is, no other call of that connection takes a step; and a call starts an
   attempt, from its launch or from its backoff wait, only when no other call
   of its connection is inside an attempt or holds a transaction *)
C29_AttemptsRunToCompletion ==
    /\ [](\A p \in Calls : call[p].pc \in RunningPcs
            => \A q \in SameConnection(p) : call[q].pc \notin RunningPcs /\ writer # q)
    /\ [][\A p \in Calls : call[p].pc \in RunningPcs
            => \A q \in SameConnection(p) : call'[q] = call[q]]_vars
    /\ [][\A p \in Calls :
            call[p].pc \in {"idle", "wait"} /\ call'[p] # call[p]
            => \A q \in Calls \ {p} :
                  call[q].conn = call'[p].conn
                  => call[q].pc \notin RunningPcs /\ writer # q]_vars

(* two calls share a connection: one is inside its attempt while the other is
   in a backoff wait *)
C29_Witness ==
    \E p \in Calls : \E q \in SameConnection(p) :
        /\ call[p].pc \in RunningPcs /\ writer = p
        /\ call[q].pc = "wait"

----------------------------------------------------------------------------
(* the calls that have a transaction open *)
InTransaction == {p \in Calls : call[p].pc \in RunningPcs}

(* C30: at most one call has a transaction open, and it is the holder of the
   write lock; a call that waits in backoff, has ended or has not started
   holds no lock; the lock is given up only by the COMMIT or the ROLLBACK of
   its holder; and a call that starts an attempt while no call is inside one
   gets the lock, however many calls are waiting *)
C30_LockHeldOnlyInsideAttempt ==
    /\ [](Cardinality(InTransaction) <= 1)
    /\ [](\A p \in Calls : writer = p <=> p \in InTransaction)
    /\ [](writer = NoCall <=> journal = NoJournal)
    /\ [][\A p \in Calls :
            writer = p /\ writer' # p
            => call[p].pc \in {"commit", "rollback"} /\ writer' = NoCall]_vars
    /\ [][\A p \in Calls :
            /\ call[p].pc \in {"idle", "wait"} /\ call'[p] # call[p]
            /\ InTransaction = {}
            /\ ~(call'[p].pc = "done" /\ call'[p].outcome \in InputErrors)
            => writer' = p /\ call'[p].pc \in {"getBook", "getBr"}]_vars

(* a call is in its second backoff wait while a call on another connection
   holds the write lock *)
C30_Witness ==
    \E p, q \in Calls :
        /\ call[p].pc = "wait" /\ call[p].attempt = 2
        /\ call[q].conn # call[p].conn
        /\ writer = q /\ call[q].pc \in RunningPcs
====
